---- MODULE Spec2Model ----
(***************************************************************************)
(* Model of openeo.rest._testing.DummyBackend: the mock openEO back-end     *)
(* that captures process graphs and simulates batch job status flows.      *)
(*                                                                         *)
(* Text (paths, job ids) is a sequence of one-character strings; bytes     *)
(* are sequences of numbers 0..255; Python str values are sequences of     *)
(* code points.                                                            *)
(***************************************************************************)
EXTENDS Integers, Sequences, FiniteSets, TLC

(***************************************************************************)
(* Bounds of the model.                                                    *)
(***************************************************************************)
MaxCaptured == 2       \* Spec: graphs captured (executions, jobs, validations)
MaxLifecycleJobs == 1  \* SpecJobs: jobs created
MaxFlowJobs == 1       \* SpecFlow: jobs created
MaxQueued == 1         \* SpecFlow: largest queued count of a policy
MaxRunning == 2        \* SpecFlow: largest running count of a policy
MaxFlowCalls == 5      \* SpecFlow: hook invocations per job
MaxJobs == 2           \* SpecSimpleFlow: jobs created
MaxCalls == 7          \* SpecSimpleFlow: hook invocations per job
MaxRegistry == 2       \* SpecRegistry: graphs captured (executions, jobs, validations)

(***************************************************************************)
(* Text helpers.                                                           *)
(***************************************************************************)
DigitChars == <<"0", "1", "2", "3", "4", "5", "6", "7", "8", "9">>

IsDigit(c) == \E d \in 1..10 : DigitChars[d] = c

DigitValue(c) == (CHOOSE d \in 1..10 : DigitChars[d] = c) - 1

IsPrefix(p, s) == Len(p) <= Len(s) /\ SubSeq(s, 1, Len(p)) = p

Drop(s, n) == SubSeq(s, n + 1, Len(s))

\* Number of leading digit characters of s (the greedy match of \d*).
RECURSIVE DigitRun(_)
DigitRun(s) ==
    IF s # <<>> /\ IsDigit(Head(s)) THEN 1 + DigitRun(Tail(s)) ELSE 0

\* Python's format(n, "d").
RECURSIVE Decimal(_)
Decimal(n) ==
    IF n < 10 THEN <<DigitChars[n + 1]>>
    ELSE Decimal(n \div 10) \o <<DigitChars[(n % 10) + 1]>>

\* Zero padding of the format spec "0<w>d": pad on the left up to width w.
RECURSIVE ZeroPad(_, _)
ZeroPad(s, w) == IF Len(s) >= w THEN s ELSE ZeroPad(<<"0">> \o s, w)

(***************************************************************************)
(* Paths of the HTTP surface.                                              *)
(***************************************************************************)
PATH_RESULT == <<"/", "r", "e", "s", "u", "l", "t">>
PATH_JOBS == <<"/", "j", "o", "b", "s">>
PATH_VALIDATION == <<"/", "v", "a", "l", "i", "d", "a", "t", "i", "o", "n">>
PATH_COLLECTIONS == <<"/", "c", "o", "l", "l", "e", "c", "t", "i", "o", "n", "s">>
JOBS_SLASH == PATH_JOBS \o <<"/">>
JOB_DASH == <<"j", "o", "b", "-">>
SUFFIX_RESULTS == <<"/", "r", "e", "s", "u", "l", "t", "s">>
RESULT_DATA == <<"r", "e", "s", "u", "l", "t", ".", "d", "a", "t", "a">>
SUFFIX_ASSET == SUFFIX_RESULTS \o <<"/">> \o RESULT_DATA

\* Width of the zero-padded sequence number of a job id.
JobIdWidth == 3

\* f"job-{n:03d}"
FormatJobId(n) == JOB_DASH \o ZeroPad(Decimal(n), JobIdWidth)

\* Length of the match of job-\d+ at the start of s, 0 when there is none.
JobIdMatchLen(s) ==
    IF IsPrefix(JOB_DASH, s) /\ DigitRun(Drop(s, Len(JOB_DASH))) > 0
    THEN Len(JOB_DASH) + DigitRun(Drop(s, Len(JOB_DASH)))
    ELSE 0

\* re.match(r"^/jobs/(job-\d+)(/|$)", path): group 1, or <<>> when no match.
\* \d+ is greedy and what follows the digits must be "/" or the end, so only
\* the longest digit run can match.
MatchJobId(path) ==
    IF ~IsPrefix(JOBS_SLASH, path) THEN <<>>
    ELSE LET rest == Drop(path, Len(JOBS_SLASH))
             n == JobIdMatchLen(rest)
         IN IF n > 0 /\ (Len(rest) = n \/ rest[n + 1] = "/")
            THEN SubSeq(rest, 1, n)
            ELSE <<>>

\* Mutant of MatchJobRoute: the regex is not anchored at the end.
MatchJobRouteOpenEnd(path, suffix) ==
    /\ IsPrefix(JOBS_SLASH, path)
    /\ LET rest == Drop(path, Len(JOBS_SLASH))
           n == JobIdMatchLen(rest)
       IN n > 0 /\ IsPrefix(suffix, Drop(rest, n))

\* A route regex "/jobs/(job-\d+)<suffix>$" against the path.
MatchJobRoute(path, suffix) ==
    /\ IsPrefix(JOBS_SLASH, path)
    /\ LET rest == Drop(path, Len(JOBS_SLASH))
           n == JobIdMatchLen(rest)
       IN n > 0 /\ Drop(rest, n) = suffix

\* "result.data" as a regex: the dot matches any character.
MatchResultData(s) ==
    /\ Len(s) = Len(RESULT_DATA)
    /\ \A i \in 1..Len(s) : RESULT_DATA[i] = "." \/ s[i] = RESULT_DATA[i]

\* The route regex "/jobs/(.*?)/results/result.data$" against the path.
MatchAssetRoute(path) ==
    /\ IsPrefix(JOBS_SLASH, path)
    /\ LET rest == Drop(path, Len(JOBS_SLASH))
           k == Len(rest) - Len(SUFFIX_ASSET)
       IN /\ k >= 0
          /\ SubSeq(rest, k + 1, k + Len(SUFFIX_RESULTS) + 1) = SUFFIX_RESULTS \o <<"/">>
          /\ MatchResultData(Drop(rest, k + Len(SUFFIX_RESULTS) + 1))

(***************************************************************************)
(* The scripted result and its normalisation to bytes.                     *)
(* A value is [kind, val]: bytes (numbers 0..255), str (code points),      *)
(* dict (a sequence of <<key, number>> items in insertion order) or list   *)
(* (a sequence of numbers).                                                *)
(***************************************************************************)
HexChars == <<48, 49, 50, 51, 52, 53, 54, 55, 56, 57, 97, 98, 99, 100, 101, 102>>

\* str.encode("utf-8") for code points below 0x800.
RECURSIVE Utf8Encode(_)
Utf8Encode(s) ==
    IF s = <<>> THEN <<>>
    ELSE LET c == Head(s)
         IN (IF c < 128 THEN <<c>> ELSE <<192 + (c \div 64), 128 + (c % 64)>>)
            \o Utf8Encode(Tail(s))

\* The ASCII digits of a non-negative number, as json.dumps writes an int.
RECURSIVE JsonInt(_)
JsonInt(n) ==
    IF n < 10 THEN <<48 + n>> ELSE JsonInt(n \div 10) \o <<48 + (n % 10)>>

\* One character of a JSON string under ensure_ascii: the quote and the
\* backslash are escaped, a non-ASCII code point becomes \uXXXX.
JsonChar(c) ==
    IF c = 34 \/ c = 92 THEN <<92, c>>
    ELSE IF c < 128 THEN <<c>>
    ELSE <<92, 117, HexChars[((c \div 4096) % 16) + 1], HexChars[((c \div 256) % 16) + 1],
           HexChars[((c \div 16) % 16) + 1], HexChars[(c % 16) + 1]>>

RECURSIVE JsonChars(_)
JsonChars(s) == IF s = <<>> THEN <<>> ELSE JsonChar(Head(s)) \o JsonChars(Tail(s))

JsonString(s) == <<34>> \o JsonChars(s) \o <<34>>

\* The items of a list, joined by ", ".
RECURSIVE JsonListItems(_)
JsonListItems(l) ==
    IF l = <<>> THEN <<>>
    ELSE JsonInt(Head(l))
         \o (IF Len(l) > 1 THEN <<44, 32>> ELSE <<>>) \o JsonListItems(Tail(l))

\* The items of a dict, each key: value, joined by ", ".
RECURSIVE JsonDictItems(_)
JsonDictItems(d) ==
    IF d = <<>> THEN <<>>
    ELSE JsonString(Head(d)[1]) \o <<58, 32>> \o JsonInt(Head(d)[2])
         \o (IF Len(d) > 1 THEN <<44, 32>> ELSE <<>>) \o JsonDictItems(Tail(d))

\* json.dumps of a dict or list (the text, as code points).
JsonDumps(v) ==
    IF v.kind = "dict" THEN <<123>> \o JsonDictItems(v.val) \o <<125>>
    ELSE <<91>> \o JsonListItems(v.val) \o <<93>>

Bytes(b) == [kind |-> "bytes", val |-> b]

\* The normalisation of next_result in _handle_post_result.
EncodeResult(result) ==
    IF result.kind \in {"dict", "list"} THEN Bytes(Utf8Encode(JsonDumps(result)))
    ELSE IF result.kind = "str" THEN Bytes(Utf8Encode(result.val))
    ELSE result

\* b'{"what?": "Result data"}'
DEFAULT_RESULT ==
    Bytes(<<123, 34, 119, 104, 97, 116, 63, 34, 58, 32, 34, 82, 101, 115, 117, 108, 116,
            32, 100, 97, 116, 97, 34, 125>>)

\* The values a test configures as next_result: text "hé", the mapping
\* {"a": 1, "é": 20} and the sequence [1, 23].
ResultValues ==
    { DEFAULT_RESULT,
      [kind |-> "str", val |-> <<104, 233>>],
      [kind |-> "dict", val |-> << <<(<<97>>), 1>>, <<(<<233>>), 20>> >>],
      [kind |-> "list", val |-> <<1, 23>>] }

(***************************************************************************)
(* Process graphs: a flat graph maps node ids to nodes; a node carries its *)
(* process_id and its arguments. The two ndvi nodes of PG_B are equal.     *)
(***************************************************************************)
Node(process_id, arguments) == [process_id |-> process_id, arguments |-> arguments]

PG_A == ("loadcollection1" :> Node("load_collection", "S2"))
PG_B ==
    ("loadcollection1" :> Node("load_collection", "S1")
     @@ "ndvi1" :> Node("ndvi", "loadcollection1")
     @@ "ndvi2" :> Node("ndvi", "loadcollection1"))
ProcessGraphs == {PG_A, PG_B}

(***************************************************************************)
(* The state of one DummyBackend. The title, description and extra         *)
(* metadata fields of a job are left out: no handler reads them.           *)
(***************************************************************************)
VARIABLES
    sync_requests,           \* list of process graphs posted to /result
    batch_jobs,              \* dict: job id -> [job_id, pg, status]
    validation_requests,     \* list of process graphs posted to /validation
    next_result,             \* the scripted result
    next_validation_errors,  \* the scripted validation errors
    job_status_updater,      \* the installed status hook
    job_stacks,              \* the scripted hook's per-job scripts (its closure)
    response,                \* what the last request was answered with
    hook_calls,              \* the hook invocations made by the last request
    started,                 \* history: ids of the jobs whose start succeeded
    reads,                   \* history: job id -> status reads answered since its start
    n_calls                  \* history: job id -> invocations of the hook for it

backend == <<sync_requests, batch_jobs, validation_requests, next_result,
             next_validation_errors, job_status_updater, job_stacks>>
flow == <<reads, n_calls>>
vars == <<sync_requests, batch_jobs, validation_requests, next_result,
          next_validation_errors, job_status_updater, job_stacks, response,
          hook_calls, started, reads, n_calls>>

EmptyMap == [x \in {} |-> x]

Get(f, k) == IF k \in DOMAIN f THEN f[k] ELSE 0

Put(f, k, v) == [x \in DOMAIN f \cup {k} |-> IF x = k THEN v ELSE f[x]]

Methods == {"GET", "POST"}

\* The job id segments requests carry: the ids of the first n jobs, and a
\* segment that fails the id pattern.
IdSegments(n) == {FormatJobId(i) : i \in 0..(n - 1)} \cup {<<"x">>}

\* The job-scoped paths over these segments.
JobPaths(n) ==
    {JOBS_SLASH \o seg \o suffix :
        seg \in IdSegments(n), suffix \in {<<>>, SUFFIX_RESULTS, SUFFIX_ASSET}}

\* The paths of the requests on n jobs: their job-scoped paths and POST /jobs.
BatchPaths(n) == JobPaths(n) \cup {PATH_JOBS}

(***************************************************************************)
(* The routes registered by __init__, in registration order.               *)
(***************************************************************************)
RouteHandler ==
    <<"_handle_post_result", "_handle_post_jobs", "_handle_post_job_results",
      "_handle_get_job", "_handle_get_job_results", "_handle_get_job_result_asset",
      "_handle_post_validation">>

RouteMatches(k, method, path) ==
    CASE k = 1 -> method = "POST" /\ path = PATH_RESULT
      [] k = 2 -> method = "POST" /\ path = PATH_JOBS
      [] k = 3 -> method = "POST" /\ MatchJobRoute(path, SUFFIX_RESULTS)
      [] k = 4 -> method = "GET" /\ MatchJobRoute(path, <<>>)
      [] k = 5 -> method = "GET" /\ MatchJobRoute(path, SUFFIX_RESULTS)
      [] k = 6 -> method = "GET" /\ MatchAssetRoute(path)
      [] k = 7 -> method = "POST" /\ path = PATH_VALIDATION

Matching(method, path) == {k \in DOMAIN RouteHandler : RouteMatches(k, method, path)}

\* The handler a request is delegated to, "" when no route matches. The
\* mock transport tries the routes from the last registered to the first.
Dispatch(method, path) ==
    LET m == Matching(method, path)
    IN IF m = {} THEN "" ELSE RouteHandler[CHOOSE k \in m : \A l \in m : l <= k]

(***************************************************************************)
(* Responses. error is the exception type that aborted the request ("" for *)
(* none) and detail the raise or assert statement that raised it.          *)
(***************************************************************************)
NoBody == [kind |-> "none", val |-> <<>>]

Answer(handler, job_id, code, body, header) ==
    [handler |-> handler, job_id |-> job_id, error |-> "", detail |-> "",
     code |-> code, body |-> body, header |-> header]

Failure(handler, error, detail) ==
    [handler |-> handler, job_id |-> <<>>, error |-> error, detail |-> detail,
     code |-> 0, body |-> NoBody, header |-> <<>>]

\* No request answered yet.
Idle == Failure("", "", "")

\* A handler that raises: nothing of the backend changes.
Raise(handler, error, detail) ==
    /\ response' = Failure(handler, error, detail)
    /\ hook_calls' = <<>>
    /\ UNCHANGED backend

\* _get_job_id: the job id of the path, or the exception raised.
GetJobId(path) ==
    LET job_id == MatchJobId(path)
    IN IF job_id = <<>>
       THEN [error |-> "OpeneoTestingException", detail |-> "Failed to extract job_id",
             job_id |-> <<>>]
       ELSE IF job_id \notin DOMAIN batch_jobs
       THEN [error |-> "AssertionError", detail |-> "job_id in self.batch_jobs",
             job_id |-> <<>>]
       ELSE [error |-> "", detail |-> "", job_id |-> job_id]

(***************************************************************************)
(* The status hook.                                                        *)
(***************************************************************************)
Rep(x, n) == [i \in 1..n |-> x]

\* Mutant of Template: the running entries come before the queued ones.
TemplateRunningFirst(queued, running, final) ==
    Rep("running", running) \o Rep("queued", queued) \o <<final>>

\* template of setup_simple_job_status_flow
Template(queued, running, final) ==
    Rep("queued", queued) \o Rep("running", running) \o <<final>>

DefaultUpdater ==
    [kind |-> "default", queued |-> 0, running |-> 0, final |-> "", template |-> <<>>]

CustomUpdater ==
    [kind |-> "custom", queued |-> 0, running |-> 0, final |-> "", template |-> <<>>]

ScriptedUpdater(queued, running, final) ==
    [kind |-> "scripted", queued |-> queued, running |-> running, final |-> final,
     template |-> Template(queued, running, final)]

\* The statuses a hook installed by a test may return.
CustomStatuses == {"created", "running", "finished"}

\* Mutant of StackKey: one script shared by all the jobs.
StackKeyShared(job_id) == <<>>

\* The key of job_stacks a job's script is kept under.
StackKey(job_id) == job_id

\* Mutant of get_status: the last item is popped, as list.pop() does.
get_status_pop_last(stacks, template, job_id) ==
    LET key == job_id
        stack == IF key \in DOMAIN stacks THEN stacks[key] ELSE template
    IN IF Len(stack) > 1
       THEN [result |-> stack[Len(stack)],
             stacks |-> Put(stacks, key, SubSeq(stack, 1, Len(stack) - 1))]
       ELSE [result |-> stack[1], stacks |-> Put(stacks, key, stack)]

\* Mutant of get_status: the first item is returned and never popped.
get_status_without_pop(stacks, template, job_id) ==
    LET key == job_id
        stack == IF key \in DOMAIN stacks THEN stacks[key] ELSE template
    IN [result |-> stack[1], stacks |-> Put(stacks, key, stack)]

\* get_status of setup_simple_job_status_flow: pop the first item each time,
\* but repeat the last one at the end.
get_status(stacks, template, job_id) ==
    LET key == StackKey(job_id)
        stack == IF key \in DOMAIN stacks THEN stacks[key] ELSE template
    IN IF Len(stack) > 1
       THEN [result |-> Head(stack), stacks |-> Put(stacks, key, Tail(stack))]
       ELSE [result |-> stack[1], stacks |-> Put(stacks, key, stack)]

\* Mutant of DefaultHook: the job is left in the status it has.
DefaultHookKeepsStatus(job_id, current_status) == current_status

\* lambda job_id, current_status: "finished"
DefaultHook(job_id, current_status) == "finished"

\* The outcomes of self.job_status_updater(job_id=..., current_status=...):
\* the status returned and the scripts left. A hook installed by a test may
\* return any status.
HookOutcomes(job_id, current_status) ==
    CASE job_status_updater.kind = "default" ->
            {[result |-> DefaultHook(job_id, current_status), stacks |-> job_stacks]}
      [] job_status_updater.kind = "scripted" ->
            {get_status(job_stacks, job_status_updater.template, job_id)}
      [] job_status_updater.kind = "custom" ->
            {[result |-> s, stacks |-> job_stacks] : s \in CustomStatuses}

HookCall(job_id, current_status, result) ==
    [job_id |-> job_id, current_status |-> current_status, result |-> result]

(***************************************************************************)
(* The handlers. Each action is one request handled to completion.         *)
(***************************************************************************)
\* handler of POST /result (synchronous execute)
PostResult(path, pg) ==
    /\ Dispatch("POST", path) = "_handle_post_result"
    /\ sync_requests' = Append(sync_requests, pg)
    /\ response' = Answer("_handle_post_result", <<>>, 200, EncodeResult(next_result), <<>>)
    /\ hook_calls' = <<>>
    /\ UNCHANGED <<batch_jobs, validation_requests, next_result, next_validation_errors,
                   job_status_updater, job_stacks>>

\* Mutant of NewJobId: the sequence numbers start at one.
NewJobIdFromOne(jobs) == FormatJobId(Cardinality(DOMAIN jobs) + 1)

\* Mutant of NewJobId: every job gets the first id.
NewJobIdReused(jobs) == FormatJobId(0)

\* f"job-{len(self.batch_jobs):03d}"
NewJobId(jobs) == FormatJobId(Cardinality(DOMAIN jobs))

\* handler of POST /jobs (create batch job)
PostJobs(path, pg) ==
    /\ Dispatch("POST", path) = "_handle_post_jobs"
    /\ LET job_id == NewJobId(batch_jobs)
       IN /\ batch_jobs' =
                Put(batch_jobs, job_id, [job_id |-> job_id, pg |-> pg, status |-> "created"])
          /\ response' = Answer("_handle_post_jobs", <<>>, 201, NoBody, job_id)
    /\ hook_calls' = <<>>
    /\ UNCHANGED <<sync_requests, validation_requests, next_result,
                   next_validation_errors, job_status_updater, job_stacks>>

\* Mutant of StartAllowed: a job is started in any status but finished.
StartAllowedUntilFinished(status) == status # "finished"

\* assert self.batch_jobs[job_id]["status"] == "created"
StartAllowed(status) == status = "created"

\* The status update shared by the start and the status read: the hook is
\* invoked with the stored status and what it returns is stored.
UpdateStatus(handler, job_id, code) ==
    \E out \in HookOutcomes(job_id, batch_jobs[job_id].status) :
        /\ batch_jobs' = [batch_jobs EXCEPT ![job_id].status = out.result]
        /\ job_stacks' = out.stacks
        /\ hook_calls' = <<HookCall(job_id, batch_jobs[job_id].status, out.result)>>
        /\ response' =
              Answer(handler, job_id, code,
                     IF handler = "_handle_get_job"
                     THEN [kind |-> "job", val |-> [id |-> job_id, status |-> out.result]]
                     ELSE NoBody,
                     <<>>)
        /\ UNCHANGED <<sync_requests, validation_requests, next_result,
                       next_validation_errors, job_status_updater>>

\* Mutant of PostJobResults: the hook is invoked before the stored status
\* is checked.
PostJobResultsHookFirst(path) ==
    /\ Dispatch("POST", path) = "_handle_post_job_results"
    /\ LET got == GetJobId(path)
       IN IF got.error # ""
          THEN Raise("_handle_post_job_results", got.error, got.detail)
          ELSE IF ~StartAllowed(batch_jobs[got.job_id].status)
          THEN \E out \in HookOutcomes(got.job_id, batch_jobs[got.job_id].status) :
                  /\ job_stacks' = out.stacks
                  /\ hook_calls' =
                        <<HookCall(got.job_id, batch_jobs[got.job_id].status, out.result)>>
                  /\ response' =
                        Failure("_handle_post_job_results", "AssertionError",
                                "status == created")
                  /\ UNCHANGED <<sync_requests, batch_jobs, validation_requests,
                                 next_result, next_validation_errors, job_status_updater>>
          ELSE UpdateStatus("_handle_post_job_results", got.job_id, 202)

\* handler of POST /jobs/{job_id}/results (start batch job)
PostJobResults(path) ==
    /\ Dispatch("POST", path) = "_handle_post_job_results"
    /\ LET got == GetJobId(path)
       IN IF got.error # ""
          THEN Raise("_handle_post_job_results", got.error, got.detail)
          ELSE IF ~StartAllowed(batch_jobs[got.job_id].status)
          THEN Raise("_handle_post_job_results", "AssertionError", "status == created")
          ELSE UpdateStatus("_handle_post_job_results", got.job_id, 202)

\* Mutant of MayUpdateStatus: every status read invokes the hook.
MayUpdateStatusAlways(status) == TRUE

\* if self.batch_jobs[job_id]["status"] != "created"
MayUpdateStatus(status) == status # "created"

\* handler of GET /jobs/{job_id} (get batch job status and metadata)
GetJob(path) ==
    /\ Dispatch("GET", path) = "_handle_get_job"
    /\ LET got == GetJobId(path)
       IN IF got.error # ""
          THEN Raise("_handle_get_job", got.error, got.detail)
          ELSE IF MayUpdateStatus(batch_jobs[got.job_id].status)
          THEN UpdateStatus("_handle_get_job", got.job_id, 200)
          ELSE /\ response' =
                    Answer("_handle_get_job", got.job_id, 200,
                           [kind |-> "job",
                            val |-> [id |-> got.job_id,
                                     status |-> batch_jobs[got.job_id].status]],
                           <<>>)
               /\ hook_calls' = <<>>
               /\ UNCHANGED backend

\* Mutant of ResultsAvailable: results are served in any status.
ResultsAvailableAlways(status) == TRUE

\* Mutant of ResultsAvailable: results are served once the job is running.
ResultsAvailableWhenRunning(status) == status \in {"running", "finished"}

\* assert self.batch_jobs[job_id]["status"] == "finished"
ResultsAvailable(status) == status = "finished"

\* Mutant of GetJobResults: listing the results updates the status as a
\* status read does.
GetJobResultsUpdating(path) ==
    /\ Dispatch("GET", path) = "_handle_get_job_results"
    /\ LET got == GetJobId(path)
       IN IF got.error # ""
          THEN Raise("_handle_get_job_results", got.error, got.detail)
          ELSE UpdateStatus("_handle_get_job_results", got.job_id, 200)

\* handler of GET /jobs/{job_id}/results (list batch job results)
GetJobResults(path) ==
    /\ Dispatch("GET", path) = "_handle_get_job_results"
    /\ LET got == GetJobId(path)
       IN IF got.error # ""
          THEN Raise("_handle_get_job_results", got.error, got.detail)
          ELSE IF ~ResultsAvailable(batch_jobs[got.job_id].status)
          THEN Raise("_handle_get_job_results", "AssertionError", "status == finished")
          ELSE /\ response' =
                    Answer("_handle_get_job_results", got.job_id, 200,
                           [kind |-> "results",
                            val |-> [id |-> got.job_id, asset |-> RESULT_DATA,
                                     href |-> JOBS_SLASH \o got.job_id \o SUFFIX_ASSET]],
                           <<>>)
               /\ hook_calls' = <<>>
               /\ UNCHANGED backend

\* return self.next_result (the handler's return value, as it is)
AssetPayload(result) == result

\* handler of GET /jobs/{job_id}/results/result.data (get batch job result asset)
GetJobResultAsset(path) ==
    /\ Dispatch("GET", path) = "_handle_get_job_result_asset"
    /\ LET got == GetJobId(path)
       IN IF got.error # ""
          THEN Raise("_handle_get_job_result_asset", got.error, got.detail)
          ELSE IF ~ResultsAvailable(batch_jobs[got.job_id].status)
          THEN Raise("_handle_get_job_result_asset", "AssertionError", "status == finished")
          ELSE /\ response' =
                    Answer("_handle_get_job_result_asset", got.job_id, 200,
                           AssetPayload(next_result), <<>>)
               /\ hook_calls' = <<>>
               /\ UNCHANGED backend

\* Mutant of PostValidation: the errors are reset once they were returned.
PostValidationResetting(path, pg) ==
    /\ Dispatch("POST", path) = "_handle_post_validation"
    /\ validation_requests' = Append(validation_requests, pg)
    /\ response' =
          Answer("_handle_post_validation", <<>>, 200,
                 [kind |-> "validation", val |-> next_validation_errors], <<>>)
    /\ next_validation_errors' = <<>>
    /\ hook_calls' = <<>>
    /\ UNCHANGED <<sync_requests, batch_jobs, next_result, job_status_updater, job_stacks>>

\* handler of POST /validation (validate process graph)
PostValidation(path, pg) ==
    /\ Dispatch("POST", path) = "_handle_post_validation"
    /\ validation_requests' = Append(validation_requests, pg)
    /\ response' =
          Answer("_handle_post_validation", <<>>, 200,
                 [kind |-> "validation", val |-> next_validation_errors], <<>>)
    /\ hook_calls' = <<>>
    /\ UNCHANGED <<sync_requests, batch_jobs, next_result, next_validation_errors,
                   job_status_updater, job_stacks>>

\* A request no registered route matches: the mock transport refuses it.
Unrouted(method, path) ==
    /\ Dispatch(method, path) = ""
    /\ Raise("", "NoMockAddress", "")

(***************************************************************************)
(* Test setup: the attributes a test assigns between requests.             *)
(***************************************************************************)
\* A setup step answers no request: response and hook_calls are cleared, so
\* that they always tell of the step just taken.
NoRequest ==
    /\ response' = Idle
    /\ hook_calls' = <<>>
    /\ UNCHANGED <<started, reads, n_calls>>

SetNextResult(result) ==
    /\ next_result' = result
    /\ NoRequest
    /\ UNCHANGED <<sync_requests, batch_jobs, validation_requests,
                   next_validation_errors, job_status_updater, job_stacks>>

ValidationErrors == {<<>>, <<"NoMatch">>}

SetNextValidationErrors(errors) ==
    /\ next_validation_errors' = errors
    /\ NoRequest
    /\ UNCHANGED <<sync_requests, batch_jobs, validation_requests, next_result,
                   job_status_updater, job_stacks>>

\* setup_simple_job_status_flow: a new hook with new, empty job_stacks
SetupSimpleJobStatusFlow(queued, running, final) ==
    /\ job_status_updater' = ScriptedUpdater(queued, running, final)
    /\ job_stacks' = EmptyMap
    /\ NoRequest
    /\ UNCHANGED <<sync_requests, batch_jobs, validation_requests, next_result,
                   next_validation_errors>>

\* A test assigns job_status_updater: the default hook again, or its own.
SetJobStatusUpdater(updater) ==
    /\ job_status_updater' = updater
    /\ job_stacks' = EmptyMap
    /\ NoRequest
    /\ UNCHANGED <<sync_requests, batch_jobs, validation_requests, next_result,
                   next_validation_errors>>

(***************************************************************************)
(* The inspection API. A query returns a value or raises; `message` holds  *)
(* the parts the exception's message is formatted from.                    *)
(***************************************************************************)
Returned(value) == [error |-> "", message |-> <<>>, value |-> value]

Raised(error, message) == [error |-> error, message |-> message, value |-> EmptyMap]

\* [b["pg"] for b in self.batch_jobs.values()]: the dict keeps the jobs in
\* the order of their creation, which is the order of their ids.
BatchPgs ==
    [i \in 1..Cardinality(DOMAIN batch_jobs) |-> batch_jobs[FormatJobId(i - 1)].pg]

\* Mutant of Pool: the graphs of the batch jobs are left out.
PoolSyncOnly == sync_requests

\* pgs = self.sync_requests + [b["pg"] for b in self.batch_jobs.values()]
Pool == sync_requests \o BatchPgs

\* Mutant of get_sync_pg: the first graph is returned when there are several.
get_sync_pg_first ==
    IF Len(sync_requests) = 0
    THEN Raised("AssertionError", [text |-> "len(self.sync_requests) == 1"])
    ELSE Returned(sync_requests[1])

\* get_sync_pg()
get_sync_pg ==
    IF Len(sync_requests) # 1
    THEN Raised("AssertionError", [text |-> "len(self.sync_requests) == 1"])
    ELSE Returned(sync_requests[1])

\* ord() of the characters of a job id
CharCode(c) ==
    CASE c = "-" -> 45
      [] c = "b" -> 98
      [] c = "j" -> 106
      [] c = "o" -> 111
      [] OTHER -> 48 + DigitValue(c)

\* a < b for str: the first differing character decides, a proper prefix is less
RECURSIVE StrLess(_, _)
StrLess(a, b) ==
    IF b = <<>> THEN FALSE
    ELSE IF a = <<>> THEN TRUE
    ELSE IF Head(a) # Head(b) THEN CharCode(Head(a)) < CharCode(Head(b))
    ELSE StrLess(Tail(a), Tail(b))

\* max(self.batch_jobs.keys())
MaxKey(jobs) == CHOOSE k \in DOMAIN jobs : \A l \in DOMAIN jobs : l = k \/ StrLess(l, k)

\* get_batch_pg()
get_batch_pg ==
    IF Cardinality(DOMAIN batch_jobs) # 1
    THEN Raised("AssertionError", [text |-> "len(self.batch_jobs) == 1"])
    ELSE Returned(batch_jobs[MaxKey(batch_jobs)].pg)

\* node.get("process_id")
NodeProcessId(node) == IF "process_id" \in DOMAIN node THEN node.process_id ELSE ""

\* Mutant of Found: of several matching nodes, one is picked.
FoundFirst(pg, process_id) ==
    LET ids == {id \in DOMAIN pg : NodeProcessId(pg[id]) = process_id}
    IN IF ids = {} THEN {} ELSE {CHOOSE id \in ids : TRUE}

\* found = [node for node in pg.values() if node.get("process_id") == process_id],
\* as the ids of the nodes found: equal nodes count once each.
Found(pg, process_id) == {id \in DOMAIN pg : NodeProcessId(pg[id]) = process_id}

\* The nodes of `ids`, each with the number of times it is listed.
NodeList(pg, ids) ==
    [node \in {pg[id] : id \in ids} |-> Cardinality({id \in ids : pg[id] = node})]

\* get_pg(process_id). The argument "" stands for None as well: the code
\* tests `if process_id:`, which both fail.
get_pg(process_id) ==
    LET pgs == Pool
    IN IF Len(pgs) # 1
       THEN Raised("OpeneoTestingException",
                   [text |-> "Expected single process graph, but collected",
                    count |-> Decimal(Len(pgs))])
       ELSE LET pg == pgs[1]
                found == Found(pg, process_id)
            IN IF process_id # ""
               THEN IF Cardinality(found) # 1
                    THEN Raised("OpeneoTestingException",
                                [text |-> "Expected single process graph node with process_id",
                                 process_id |-> process_id,
                                 count |-> Decimal(Cardinality(found)),
                                 found |-> NodeList(pg, found)])
                    ELSE Returned(pg[CHOOSE id \in found : TRUE])
               ELSE Returned(pg)

(***************************************************************************)
(* History of a request step, read off the response and the hook calls.    *)
(***************************************************************************)
Started ==
    started' =
        IF response'.handler = "_handle_post_job_results" /\ response'.error = ""
        THEN started \cup {response'.job_id}
        ELSE started

\* The counters, kept up to `limit` hook invocations per job.
Counted(limit) ==
    /\ reads' =
          IF /\ response'.handler = "_handle_get_job"
             /\ response'.error = ""
             /\ response'.job_id \in started
          THEN Put(reads, response'.job_id, Get(reads, response'.job_id) + 1)
          ELSE reads
    /\ n_calls' =
          IF hook_calls' # <<>>
          THEN Put(n_calls, hook_calls'[1].job_id, Get(n_calls, hook_calls'[1].job_id) + 1)
          ELSE n_calls
    /\ \A job_id \in DOMAIN n_calls' : n_calls'[job_id] <= limit

\* At most n jobs are created.
Jobs(n) == Cardinality(DOMAIN batch_jobs') <= n

\* The state after construction, with the status hook `updater`.
Constructed(updater) ==
    /\ sync_requests = <<>>
    /\ batch_jobs = EmptyMap
    /\ validation_requests = <<>>
    /\ next_result = DEFAULT_RESULT
    /\ next_validation_errors = <<>>
    /\ job_status_updater = updater
    /\ job_stacks = EmptyMap
    /\ response = Idle
    /\ hook_calls = <<>>
    /\ started = {}
    /\ reads = EmptyMap
    /\ n_calls = EmptyMap

(***************************************************************************)
(* Spec: one backend with its default hook, every route, and the test      *)
(* configuring the scripted result and validation errors between requests. *)
(***************************************************************************)
Init == Constructed(DefaultUpdater)

Paths == JobPaths(MaxCaptured) \cup {PATH_RESULT, PATH_JOBS, PATH_VALIDATION, PATH_COLLECTIONS}

Captured ==
    Len(sync_requests') + Len(validation_requests') + Cardinality(DOMAIN batch_jobs')
        <= MaxCaptured

Next ==
    \/ \E path \in Paths, pg \in ProcessGraphs :
          PostResult(path, pg) /\ Captured /\ Started /\ UNCHANGED flow
    \/ \E path \in Paths, pg \in ProcessGraphs :
          PostJobs(path, pg) /\ Captured /\ Started /\ UNCHANGED flow
    \/ \E path \in Paths : PostJobResults(path) /\ Started /\ UNCHANGED flow
    \/ \E path \in Paths : GetJob(path) /\ Started /\ UNCHANGED flow
    \/ \E path \in Paths : GetJobResults(path) /\ Started /\ UNCHANGED flow
    \/ \E path \in Paths : GetJobResultAsset(path) /\ Started /\ UNCHANGED flow
    \/ \E path \in Paths, pg \in ProcessGraphs :
          PostValidation(path, pg) /\ Captured /\ Started /\ UNCHANGED flow
    \/ \E method \in Methods, path \in Paths :
          Unrouted(method, path) /\ Started /\ UNCHANGED flow
    \/ \E result \in ResultValues : SetNextResult(result)
    \/ \E errors \in ValidationErrors : SetNextValidationErrors(errors)

Spec == Init /\ [][Next]_vars

(***************************************************************************)
(* SpecJobs: the batch job requests under any hook. The test installs the  *)
(* default hook, a scripted one or its own at any time between requests,   *)
(* and configures the scripted result.                                     *)
(***************************************************************************)
\* The arguments setup_simple_job_status_flow is called with under SpecJobs.
SetupArgs == {<<0, 1, "finished">>, <<0, 0, "created">>}

LifecyclePaths == BatchPaths(MaxLifecycleJobs)

NextJobs ==
    \/ \E path \in LifecyclePaths, pg \in ProcessGraphs :
          PostJobs(path, pg) /\ Jobs(MaxLifecycleJobs) /\ Started /\ UNCHANGED flow
    \/ \E path \in LifecyclePaths : PostJobResults(path) /\ Started /\ UNCHANGED flow
    \/ \E path \in LifecyclePaths : GetJob(path) /\ Started /\ UNCHANGED flow
    \/ \E path \in LifecyclePaths : GetJobResults(path) /\ Started /\ UNCHANGED flow
    \/ \E path \in LifecyclePaths : GetJobResultAsset(path) /\ Started /\ UNCHANGED flow
    \/ \E result \in ResultValues : SetNextResult(result)
    \/ \E args \in SetupArgs : SetupSimpleJobStatusFlow(args[1], args[2], args[3])
    \/ \E updater \in {DefaultUpdater, CustomUpdater} : SetJobStatusUpdater(updater)

SpecJobs == Init /\ [][NextJobs]_vars

(***************************************************************************)
(* SpecFlow: the batch job requests under one standard status policy, set  *)
(* up before the first request and left alone: the default hook, or        *)
(* setup_simple_job_status_flow(queued, running, final).                   *)
(***************************************************************************)
FinalLabels == {"finished", "error"}

FlowUpdaters ==
    {DefaultUpdater}
    \cup {ScriptedUpdater(queued, running, final) :
            queued \in 0..MaxQueued, running \in 0..MaxRunning, final \in FinalLabels}

InitFlow == \E updater \in FlowUpdaters : Constructed(updater)

FlowPaths == BatchPaths(MaxFlowJobs)

NextFlow ==
    \/ \E path \in FlowPaths :
          PostJobs(path, PG_A) /\ Jobs(MaxFlowJobs) /\ Started /\ Counted(MaxFlowCalls)
    \/ \E path \in FlowPaths : PostJobResults(path) /\ Started /\ Counted(MaxFlowCalls)
    \/ \E path \in FlowPaths : GetJob(path) /\ Started /\ Counted(MaxFlowCalls)
    \/ \E path \in FlowPaths : GetJobResults(path) /\ Started /\ Counted(MaxFlowCalls)
    \/ \E path \in FlowPaths : GetJobResultAsset(path) /\ Started /\ Counted(MaxFlowCalls)

SpecFlow == InitFlow /\ [][NextFlow]_vars

(***************************************************************************)
(* SpecSimpleFlow: the batch job requests on several jobs after            *)
(* setup_simple_job_status_flow() with its default arguments.              *)
(***************************************************************************)
DefaultQueued == 1
DefaultRunning == 4

InitSimpleFlow == Constructed(ScriptedUpdater(DefaultQueued, DefaultRunning, "finished"))

SimpleFlowPaths == BatchPaths(MaxJobs)

NextSimpleFlow ==
    \/ \E path \in SimpleFlowPaths :
          PostJobs(path, PG_A) /\ Jobs(MaxJobs) /\ Started /\ Counted(MaxCalls)
    \/ \E path \in SimpleFlowPaths : PostJobResults(path) /\ Started /\ Counted(MaxCalls)
    \/ \E path \in SimpleFlowPaths : GetJob(path) /\ Started /\ Counted(MaxCalls)
    \/ \E path \in SimpleFlowPaths : GetJobResults(path) /\ Started /\ Counted(MaxCalls)
    \/ \E path \in SimpleFlowPaths : GetJobResultAsset(path) /\ Started /\ Counted(MaxCalls)

SpecSimpleFlow == InitSimpleFlow /\ [][NextSimpleFlow]_vars

(***************************************************************************)
(* SpecRegistry: every route, under the default hook or a scripted one set *)
(* up before the first request.                                            *)
(***************************************************************************)
RegistryUpdaters == {DefaultUpdater, ScriptedUpdater(1, 1, "finished")}

InitRegistry == \E updater \in RegistryUpdaters : Constructed(updater)

RegistryPaths ==
    JobPaths(MaxRegistry) \cup {PATH_RESULT, PATH_JOBS, PATH_VALIDATION, PATH_COLLECTIONS}

CapturedRegistry ==
    Len(sync_requests') + Len(validation_requests') + Cardinality(DOMAIN batch_jobs')
        <= MaxRegistry

NextRegistry ==
    \/ \E path \in RegistryPaths, pg \in ProcessGraphs :
          PostResult(path, pg) /\ CapturedRegistry /\ Started /\ UNCHANGED flow
    \/ \E path \in RegistryPaths, pg \in ProcessGraphs :
          PostJobs(path, pg) /\ CapturedRegistry /\ Started /\ UNCHANGED flow
    \/ \E path \in RegistryPaths : PostJobResults(path) /\ Started /\ UNCHANGED flow
    \/ \E path \in RegistryPaths : GetJob(path) /\ Started /\ UNCHANGED flow
    \/ \E path \in RegistryPaths : GetJobResults(path) /\ Started /\ UNCHANGED flow
    \/ \E path \in RegistryPaths : GetJobResultAsset(path) /\ Started /\ UNCHANGED flow
    \/ \E path \in RegistryPaths, pg \in ProcessGraphs :
          PostValidation(path, pg) /\ CapturedRegistry /\ Started /\ UNCHANGED flow
    \/ \E method \in Methods, path \in RegistryPaths :
          Unrouted(method, path) /\ Started /\ UNCHANGED flow

SpecRegistry == InitRegistry /\ [][NextRegistry]_vars

(***************************************************************************)
(* What the claims speak of.                                               *)
(***************************************************************************)
\* The last step answered a request of `handler` without raising.
Answered(handler) == response.handler = handler /\ response.error = ""

\* The last step answered a status read of a job that had been started.
ReadAfterStart == Answered("_handle_get_job") /\ response.job_id \in started

\* The request (method, path), whichever handler it is delegated to.
Request(method, path) ==
    \/ method = "POST" /\ PostJobResults(path)
    \/ method = "GET" /\ (GetJob(path) \/ GetJobResults(path) \/ GetJobResultAsset(path))
    \/ Unrouted(method, path)

(***************************************************************************)
(* C1. Under setup_simple_job_status_flow(queued=1, running=4,             *)
(* final="finished"), the status reads of a job after its start.           *)
(***************************************************************************)
\* C1 as stated: reads 1..5 after the start yield queued, running, running,
\* running, running, and the sixth and every later read yields finished.
C1_ReadsAsStated ==
    ReadAfterStart =>
        response.body.val.status =
            (IF reads[response.job_id] = 1 THEN "queued"
             ELSE IF reads[response.job_id] <= 5 THEN "running"
             ELSE "finished")

\* C1 amended: the start itself takes the script's first entry, so the job
\* is queued right after its start, status reads 1..4 after the start yield
\* running, and the fifth and every later read yields finished.
C1_ReadsAfterStart ==
    /\ Answered("_handle_post_job_results") =>
          batch_jobs[response.job_id].status = "queued"
    /\ ReadAfterStart =>
          response.body.val.status =
              (IF reads[response.job_id] <= 4 THEN "running" ELSE "finished")

\* A sixth status read after the start was answered, with finished.
C1_Witness ==
    /\ ReadAfterStart
    /\ reads[response.job_id] = 6
    /\ response.body.val.status = "finished"

(***************************************************************************)
(* C2. Job ids are assigned in creation order.                             *)
(***************************************************************************)
\* The number a digit string reads as.
RECURSIVE ParseDecimal(_)
ParseDecimal(s) ==
    IF s = <<>> THEN 0
    ELSE 10 * ParseDecimal(SubSeq(s, 1, Len(s) - 1)) + DigitValue(s[Len(s)])

\* The sequence number a job id carries (the digits after "job-").
JobIdNumber(job_id) == ParseDecimal(Drop(job_id, Len(JOB_DASH)))

\* The registry holds exactly the sequence numbers 0..n-1, one job each,
\* every id of the form job-<digits>, kept in its record.
C2_Dense ==
    /\ {JobIdNumber(job_id) : job_id \in DOMAIN batch_jobs}
          = 0..(Cardinality(DOMAIN batch_jobs) - 1)
    /\ \A a, b \in DOMAIN batch_jobs : JobIdNumber(a) = JobIdNumber(b) => a = b
    /\ \A job_id \in DOMAIN batch_jobs :
          /\ MatchJobId(JOBS_SLASH \o job_id) = job_id
          /\ batch_jobs[job_id].job_id = job_id

\* A create request adds one job, whose sequence number is the number of
\* jobs created before it and whose id the response carries; no other step
\* adds or removes a job.
C2_Step ==
    LET new == DOMAIN batch_jobs' \ DOMAIN batch_jobs
    IN /\ DOMAIN batch_jobs \subseteq DOMAIN batch_jobs'
       /\ IF /\ response'.handler = "_handle_post_jobs"
             /\ \E pg \in ProcessGraphs : PostJobs(PATH_JOBS, pg)
          THEN /\ new = {response'.header}
               /\ JobIdNumber(response'.header) = Cardinality(DOMAIN batch_jobs)
               /\ \A job_id \in DOMAIN batch_jobs :
                     JobIdNumber(job_id) < JobIdNumber(response'.header)
          ELSE new = {}

\* C2: the n-th successful create request (n from 0) is assigned the id with
\* sequence number n: strictly increasing, no gaps, never reused, whatever
\* requests come between the creations.
C2_SequentialIds == []C2_Dense /\ [][C2_Step]_vars

\* A second job was created after the first one was started.
C2_Witness ==
    /\ Answered("_handle_post_jobs")
    /\ Cardinality(DOMAIN batch_jobs) = 2
    /\ started # {}

(***************************************************************************)
(* C3. The start request.                                                  *)
(***************************************************************************)
C3_Step(path) ==
    LET job_id == MatchJobId(path)
    IN IF job_id \in DOMAIN batch_jobs /\ batch_jobs[job_id].status = "created"
       THEN /\ response'.error = ""
            /\ response'.code = 202
            /\ hook_calls' =
                  <<HookCall(job_id, "created", batch_jobs'[job_id].status)>>
            /\ \A other \in DOMAIN batch_jobs \ {job_id} :
                  batch_jobs'[other] = batch_jobs[other]
       ELSE /\ response'.error # ""
            /\ hook_calls' = <<>>
            /\ batch_jobs' = batch_jobs
            /\ job_id \in DOMAIN batch_jobs =>
                  /\ response'.error = "AssertionError"
                  /\ response'.detail = "status == created"

\* C3: a start request succeeds only on an existing job whose stored status
\* is created; it then invokes the hook once with (job id, "created"),
\* stores what the hook returns and answers 202. On a job whose stored
\* status is not created it fails with the invalid-state-transition error.
C3_StartOnlyCreated ==
    [][\A path \in LifecyclePaths :
          response'.handler = "_handle_post_job_results" /\ PostJobResults(path)
              => C3_Step(path)]_vars

\* A second start of a started job was refused.
C3_Witness ==
    /\ response.handler = "_handle_post_job_results"
    /\ response.detail = "status == created"
    /\ started # {}

(***************************************************************************)
(* C4. Status reads of a job that was never started.                       *)
(***************************************************************************)
\* A job no start request has succeeded for is stored as created.
C4_Unstarted ==
    \A job_id \in DOMAIN batch_jobs \ started : batch_jobs[job_id].status = "created"

\* A status read of such a job answers created, invokes no hook and leaves
\* the registry and the scripts as they are.
C4_Step(path) ==
    MatchJobId(path) \in DOMAIN batch_jobs \ started =>
        /\ response'.error = ""
        /\ response'.body = [kind |-> "job",
                             val |-> [id |-> MatchJobId(path), status |-> "created"]]
        /\ hook_calls' = <<>>
        /\ batch_jobs' = batch_jobs
        /\ job_stacks' = job_stacks
        /\ started' = started

\* C4: for a created job no start request has ever succeeded for, every
\* status read returns created, leaves the stored status created and does
\* not invoke the status hook, whatever hook is installed.
C4_UnstartedStaysCreated ==
    /\ []C4_Unstarted
    /\ [][\A path \in LifecyclePaths :
             response'.handler = "_handle_get_job" /\ GetJob(path) => C4_Step(path)]_vars

\* A status read of a job never started was answered while a hook other
\* than the default one was installed.
C4_Witness ==
    /\ Answered("_handle_get_job")
    /\ response.job_id \notin started
    /\ job_status_updater.kind # "default"

(***************************************************************************)
(* C5. The results of a job.                                               *)
(***************************************************************************)
C5_Step(path, handler) ==
    LET job_id == MatchJobId(path)
    IN job_id \in DOMAIN batch_jobs =>
          IF batch_jobs[job_id].status = "finished"
          THEN /\ response'.error = ""
               /\ response'.job_id = job_id
               /\ handler = "_handle_get_job_results" =>
                     /\ response'.body.kind = "results"
                     /\ response'.body.val.id = job_id
                     /\ response'.body.val.asset = RESULT_DATA
                     /\ MatchJobId(response'.body.val.href) = job_id
                     /\ Dispatch("GET", response'.body.val.href)
                           = "_handle_get_job_result_asset"
               /\ handler = "_handle_get_job_result_asset" =>
                     /\ response'.body = next_result
                     /\ next_result' = next_result
          ELSE /\ response'.error = "AssertionError"
               /\ response'.detail = "status == finished"

\* C5: on an existing job, the list-results and the result-asset request
\* fail with the invalid-state-transition error while the stored status is
\* not finished; once it is finished both succeed, the listing names the one
\* asset result.data with an href that leads to the asset of that job, and
\* the asset handler returns the next_result configured at that time.
C5_ResultsWhenFinished ==
    [][\A path \in LifecyclePaths :
          /\ response'.handler = "_handle_get_job_results" /\ GetJobResults(path)
                => C5_Step(path, "_handle_get_job_results")
          /\ response'.handler = "_handle_get_job_result_asset" /\ GetJobResultAsset(path)
                => C5_Step(path, "_handle_get_job_result_asset")]_vars

\* The asset of a finished job was answered with a result configured after
\* the construction of the backend, while a job is in the registry.
C5_Witness ==
    /\ Answered("_handle_get_job_result_asset")
    /\ response.body = next_result
    /\ next_result # DEFAULT_RESULT

(***************************************************************************)
(* C6. The scripted result as bytes on both endpoints.                     *)
(***************************************************************************)
\* C6: for every kind of next_result (bytes, text, mapping, sequence) the
\* result-asset request of a finished job and the synchronous execution
\* return the same bytes: the encoded / JSON-serialised form of next_result.
C6_SameBytesOnBothEndpoints ==
    (Answered("_handle_get_job_result_asset") \/ Answered("_handle_post_result")) =>
        /\ response.body.kind = "bytes"
        /\ response.body = EncodeResult(next_result)

(***************************************************************************)
(* C7. Job-scoped requests with an invalid or unknown job id.              *)
(***************************************************************************)
\* The job-scoped requests: start, status read, list results, result asset.
JobScoped(method, path) ==
    \E seg \in IdSegments(MaxCaptured) :
        \/ method = "POST" /\ path = JOBS_SLASH \o seg \o SUFFIX_RESULTS
        \/ method = "GET" /\ path \in {JOBS_SLASH \o seg, JOBS_SLASH \o seg \o SUFFIX_RESULTS,
                                       JOBS_SLASH \o seg \o SUFFIX_ASSET}

\* C7: every job-scoped request a handler is run for, whose path carries an
\* id that fails the id pattern or names no job of the registry, fails with
\* OpeneoTestingException, the named error kind that is neither a plain
\* assertion failure nor the invalid-state-transition failure.
C7_NamedErrorForBadJobId ==
    [][\A method \in Methods, path \in Paths :
          (/\ JobScoped(method, path)
           /\ Dispatch(method, path) # ""
           /\ Request(method, path)
           /\ MatchJobId(path) \notin DOMAIN batch_jobs)
          => response'.error = "OpeneoTestingException"]_vars

(***************************************************************************)
(* C8. The status of a job never regresses under a standard policy.        *)
(***************************************************************************)
\* The stage of a status along created < queued < running < final.
Stage(status) ==
    CASE status = "created" -> 0
      [] status = "queued" -> 1
      [] status = "running" -> 2
      [] OTHER -> 3

\* C8: under the default hook and under every scripted policy whose final
\* label is none of created, queued, running, each change of a job's stored
\* status moves it to an equal or later stage, and created is never entered
\* again after a successful start.
C8_NeverRegresses ==
    /\ [](\A job_id \in started : batch_jobs[job_id].status # "created")
    /\ [][\A job_id \in DOMAIN batch_jobs :
             Stage(batch_jobs'[job_id].status) >= Stage(batch_jobs[job_id].status)]_vars

\* A job went through queued and running and has reached the final label
\* error of its policy.
C8_Witness ==
    \E job_id \in started :
        /\ batch_jobs[job_id].status = "error"
        /\ job_status_updater.queued >= 1
        /\ job_status_updater.running >= 1
        /\ reads[job_id] >= 3

(***************************************************************************)
(* C9. What the scripted hook returns on its k-th invocation for a job.    *)
(***************************************************************************)
\* The k-th entry of [queued]*queued + [running]*running + [final], and
\* final for every k beyond it.
ScriptEntry(k) ==
    IF k <= job_status_updater.queued THEN "queued"
    ELSE IF k <= job_status_updater.queued + job_status_updater.running THEN "running"
    ELSE job_status_updater.final

\* C9: the scripted hook returns, on its k-th invocation for a job id, the
\* k-th entry of its script while k <= queued + running + 1, and the final
\* label for every later k, whatever current_status it is passed.
C9_KthInvocation ==
    (job_status_updater.kind = "scripted" /\ hook_calls # <<>>) =>
        hook_calls[1].result = ScriptEntry(n_calls[hook_calls[1].job_id])

\* The hook was invoked for a job after it had returned its final label:
\* the script was exhausted and its last entry repeated.
C9_Witness ==
    /\ job_status_updater.kind = "scripted"
    /\ hook_calls # <<>>
    /\ job_status_updater.queued + job_status_updater.running >= 2
    /\ n_calls[hook_calls[1].job_id]
          > job_status_updater.queued + job_status_updater.running + 1
    /\ hook_calls[1].current_status = job_status_updater.final
    /\ hook_calls[1].result = job_status_updater.final

(***************************************************************************)
(* C10. Each job has its own script.                                       *)
(***************************************************************************)
\* What is left of the script after n invocations.
ScriptLeft(n) ==
    LET template == job_status_updater.template
    IN IF n < Len(template) THEN Drop(template, n) ELSE <<template[Len(template)]>>

\* The script and the stored status of a job are those its own hook
\* invocations leave, however many were made for the other jobs; a job has
\* a script from its first hook invocation on.
C10_OwnScript ==
    /\ DOMAIN job_stacks = {job_id \in DOMAIN batch_jobs : Get(n_calls, job_id) > 0}
    /\ \A job_id \in DOMAIN job_stacks : job_stacks[job_id] = ScriptLeft(n_calls[job_id])
    /\ \A job_id \in DOMAIN batch_jobs :
          batch_jobs[job_id].status =
              IF Get(n_calls, job_id) = 0 THEN "created"
              ELSE IF Get(n_calls, job_id) < Len(job_status_updater.template)
              THEN job_status_updater.template[n_calls[job_id]]
              ELSE "finished"

\* A request on one job changes neither the stored status nor the script
\* of any other job.
C10_Step(path) ==
    \A other \in DOMAIN batch_jobs \ {MatchJobId(path)} :
        /\ batch_jobs'[other] = batch_jobs[other]
        /\ other \in DOMAIN job_stacks' <=> other \in DOMAIN job_stacks
        /\ other \in DOMAIN job_stacks => job_stacks'[other] = job_stacks[other]

\* C10: under the scripted policy each job id has its own script, created at
\* the first hook invocation for that job: requests on a job B never consume
\* entries of the script of another job A nor change A's stored status, so
\* the statuses observed for A are those of A's own requests alone.
C10_IndependentScripts ==
    /\ []C10_OwnScript
    /\ [][\A method \in Methods, path \in SimpleFlowPaths :
             (batch_jobs' # batch_jobs \/ job_stacks' # job_stacks)
                 /\ Request(method, path) => C10_Step(path)]_vars

\* Two started jobs stand at different places of their scripts.
C10_Witness ==
    \E a, b \in started :
        /\ n_calls[a] = 1
        /\ n_calls[b] >= 3
        /\ batch_jobs[a].status = "queued"
        /\ batch_jobs[b].status = "running"

(***************************************************************************)
(* C11. The default (immediate-finish) hook.                               *)
(***************************************************************************)
\* The job a job-scoped path addresses is the one whose start was just
\* answered.
JustStarted(path) ==
    /\ Answered("_handle_post_job_results")
    /\ MatchJobId(path) = response.job_id

C11_Step ==
    job_status_updater.kind = "default" =>
        /\ response'.handler = "_handle_post_job_results" /\ response'.error = ""
              => batch_jobs'[response'.job_id].status = "finished"
        /\ response'.handler = "_handle_get_job" /\ response'.error = ""
              /\ response'.job_id \in started
              => response'.body.val.status = "finished"
        /\ \A path \in FlowPaths :
              /\ JustStarted(path)
              /\ GetJobResults(path) \/ GetJobResultAsset(path)
              => /\ response'.error = ""
                 /\ response'.job_id = response.job_id

\* C11: with the default hook, a successful start leaves the job's stored
\* status finished, every status read after it returns finished, and a
\* list-results or result-asset request made right after the start, with no
\* status read in between, succeeds.
C11_ImmediateFinish == [][C11_Step]_vars

\* The result asset of a job was served under the default hook, after its
\* start and before any status read of it.
C11_Witness ==
    /\ job_status_updater.kind = "default"
    /\ Answered("_handle_get_job_result_asset")
    /\ response.job_id \in started
    /\ Get(reads, response.job_id) = 0

(***************************************************************************)
(* C12. The combined single-graph query without process_id.                *)
(***************************************************************************)
\* The graphs captured by synchronous executions and batch job creations.
TotalCaptured == Len(sync_requests) + Cardinality(DOMAIN batch_jobs)

\* C12: get_pg() returns a graph if and only if the synchronous graphs
\* captured and the batch jobs created number exactly one together, and then
\* it returns that graph; otherwise it raises OpeneoTestingException with a
\* message that reports the total.
C12_CombinedQuery ==
    LET r == get_pg("")
    IN /\ r.error = "" <=> TotalCaptured = 1
       /\ TotalCaptured = 1 /\ Len(sync_requests) = 1 => r.value = sync_requests[1]
       /\ TotalCaptured = 1 /\ Len(sync_requests) = 0 =>
             \A job_id \in DOMAIN batch_jobs : r.value = batch_jobs[job_id].pg
       /\ TotalCaptured # 1 =>
             /\ r.error = "OpeneoTestingException"
             /\ DOMAIN r.message = {"text", "count"}
             /\ ParseDecimal(r.message.count) = TotalCaptured

\* One synchronous execution and one batch job: the query fails and reports
\* two graphs.
C12_Witness ==
    /\ Len(sync_requests) = 1
    /\ Cardinality(DOMAIN batch_jobs) = 1
    /\ get_pg("").error = "OpeneoTestingException"
    /\ get_pg("").message.count = <<"2">>

(***************************************************************************)
(* C13. The combined query narrowed to one node by process_id.             *)
(***************************************************************************)
\* The process ids looked up: on one node of PG_A and PG_B, on two nodes of
\* PG_B, on no node.
ProcessIds == {"load_collection", "ndvi", "apply"}

\* The one graph captured, when exactly one was.
TheGraph ==
    IF Len(sync_requests) = 1
    THEN sync_requests[1]
    ELSE batch_jobs[CHOOSE job_id \in DOMAIN batch_jobs : TRUE].pg

\* The ids of the nodes of `pg` that carry process_id p.
Carrying(pg, p) == {id \in DOMAIN pg : pg[id].process_id = p}

\* C13: with exactly one graph captured, get_pg(process_id=p) returns a node
\* if and only if exactly one node of the graph has process_id p, and then it
\* returns that node; otherwise it raises OpeneoTestingException with a
\* message that reports the number of matching nodes.
C13_NodeQuery ==
    TotalCaptured = 1 =>
        \A p \in ProcessIds :
            LET r == get_pg(p)
                ids == Carrying(TheGraph, p)
            IN /\ r.error = "" <=> Cardinality(ids) = 1
               /\ Cardinality(ids) = 1 => \A id \in ids : r.value = TheGraph[id]
               /\ Cardinality(ids) # 1 =>
                     /\ r.error = "OpeneoTestingException"
                     /\ r.message.process_id = p
                     /\ ParseDecimal(r.message.count) = Cardinality(ids)

\* The one graph captured has two ndvi nodes and one load_collection node:
\* the lookup of ndvi fails reporting two nodes, that of load_collection
\* returns the node.
C13_Witness ==
    /\ TotalCaptured = 1
    /\ TheGraph = PG_B
    /\ get_pg("ndvi").error = "OpeneoTestingException"
    /\ get_pg("ndvi").message.count = <<"2">>
    /\ get_pg("load_collection") = Returned(Node("load_collection", "S1"))

(***************************************************************************)
(* C14. The single-kind accessors.                                         *)
(***************************************************************************)
\* C14: get_sync_pg() returns a graph exactly when one synchronous execution
\* was captured, however many batch jobs there are, and then returns that
\* graph; get_batch_pg() returns a graph exactly when one batch job was
\* created, however many executions were captured, and then returns the
\* job's graph; with none or several of its kind each raises.
C14_SingleKind ==
    /\ get_sync_pg.error = "" <=> Len(sync_requests) = 1
    /\ Len(sync_requests) = 1 => get_sync_pg.value = sync_requests[1]
    /\ get_sync_pg.error # "" => get_sync_pg.error = "AssertionError"
    /\ get_batch_pg.error = "" <=> Cardinality(DOMAIN batch_jobs) = 1
    /\ Cardinality(DOMAIN batch_jobs) = 1 =>
          \A job_id \in DOMAIN batch_jobs : get_batch_pg.value = batch_jobs[job_id].pg
    /\ get_batch_pg.error # "" => get_batch_pg.error = "AssertionError"

\* Two executions and no job were captured: both accessors raise.
C14_Witness ==
    /\ Len(sync_requests) = 2
    /\ sync_requests[1] # sync_requests[2]
    /\ batch_jobs = EmptyMap
    /\ get_sync_pg.error = "AssertionError"
    /\ get_batch_pg.error = "AssertionError"

(***************************************************************************)
(* C15. Validation requests.                                               *)
(***************************************************************************)
C15_Step ==
    \A pg \in ProcessGraphs :
        response'.handler = "_handle_post_validation" /\ PostValidation(PATH_VALIDATION, pg) =>
            /\ validation_requests' = Append(validation_requests, pg)
            /\ response'.error = ""
            /\ response'.body = [kind |-> "validation", val |-> next_validation_errors]
            /\ next_validation_errors' = next_validation_errors
            /\ Answered("_handle_post_validation") => response'.body = response.body

\* C15: a validation request appends its graph to the end of the validation
\* log and is answered with the configured next_validation_errors, which it
\* leaves as they are: consecutive validation requests are answered with the
\* same errors. The errors are empty after construction.
C15_Validation == next_validation_errors = <<>> /\ [][C15_Step]_vars

\* Two validation requests in a row were answered with the same configured,
\* non-empty errors, and the log holds their graphs in request order.
C15_Witness ==
    /\ validation_requests = <<PG_B, PG_A>>
    /\ Answered("_handle_post_validation")
    /\ response.body.val = <<"NoMatch">>
    /\ next_validation_errors = <<"NoMatch">>

(***************************************************************************)
(* C16. The results requests leave the backend as it is.                   *)
(***************************************************************************)
ResultsHandlers == {"_handle_get_job_results", "_handle_get_job_result_asset"}

\* The step is a list-results or result-asset request, answered or failed.
C16_Step ==
    response'.handler \in ResultsHandlers =>
        /\ batch_jobs' = batch_jobs
        /\ hook_calls' = <<>>
        /\ job_stacks' = job_stacks
        /\ sync_requests' = sync_requests
        /\ validation_requests' = validation_requests
        /\ next_result' = next_result
        /\ started' = started

\* C16: a list-results or result-asset request, answered or failed, changes
\* no job's stored status, does not invoke the status hook and consumes no
\* script entry, and changes neither the capture logs nor next_result.
C16_ResultsReadOnly == [][C16_Step]_vars

\* Under a scripted hook a list-results request on a running job failed, and
\* the job is running still, its script as it was.
C16_Witness ==
    /\ job_status_updater.kind = "scripted"
    /\ response.handler = "_handle_get_job_results"
    /\ response.detail = "status == finished"
    /\ \E job_id \in started :
          /\ batch_jobs[job_id].status = "running"
          /\ job_stacks[job_id] = <<"finished">>

(***************************************************************************)
(* C17. A start request that fails.                                        *)
(***************************************************************************)
\* The step is a start request that raised.
C17_Step ==
    response'.handler = "_handle_post_job_results" /\ response'.error # "" =>
        /\ batch_jobs' = batch_jobs
        /\ hook_calls' = <<>>
        /\ job_stacks' = job_stacks
        /\ n_calls' = n_calls
        /\ started' = started
        /\ sync_requests' = sync_requests
        /\ validation_requests' = validation_requests

\* C17: a start request that fails, the job being absent or its stored
\* status not created, changes no job's stored status, creates no job, does
\* not invoke the status hook and consumes no script entry of any job.
C17_FailedStartNoEffect == [][C17_Step]_vars

\* A second start of a job was rejected after its start and one status read:
\* the hook was invoked twice for it and its script is where the read left it.
C17_Witness ==
    /\ response.handler = "_handle_post_job_results"
    /\ response.detail = "status == created"
    /\ \E job_id \in started :
          /\ n_calls[job_id] = 2
          /\ Get(reads, job_id) = 1
          /\ batch_jobs[job_id].status = "running"
          /\ job_stacks[job_id] = Template(0, DefaultRunning - 1, "finished")

(***************************************************************************)
(* C18. The registry and the capture logs only grow.                       *)
(***************************************************************************)
StatusHandlers == {"_handle_post_job_results", "_handle_get_job"}

C18_Step ==
    /\ IsPrefix(sync_requests, sync_requests')
    /\ DOMAIN batch_jobs \subseteq DOMAIN batch_jobs'
    /\ \A job_id \in DOMAIN batch_jobs :
          /\ batch_jobs'[job_id].job_id = batch_jobs[job_id].job_id
          /\ batch_jobs'[job_id].pg = batch_jobs[job_id].pg
          /\ batch_jobs'[job_id].status # batch_jobs[job_id].status =>
                /\ response'.handler \in StatusHandlers
                /\ response'.error = ""
                /\ response'.job_id = job_id
    /\ response'.handler = "_handle_post_result" => batch_jobs' = batch_jobs
    /\ response'.handler = "_handle_post_jobs" =>
          /\ sync_requests' = sync_requests
          /\ \A job_id \in DOMAIN batch_jobs : batch_jobs'[job_id] = batch_jobs[job_id]

\* C18: over any sequence of requests the synchronous log and the set of job
\* ids lose and reorder nothing; a job keeps its id and its graph; a job's
\* stored status is changed only by a start or a status read of that job; a
\* synchronous execution leaves the registry as it is, and a job creation
\* leaves the synchronous log and every existing job as they are.
C18_AppendOnly == [][C18_Step]_vars

\* A second job was created after the start of the first job, which keeps
\* its graph and its status.
C18_Witness ==
    /\ Answered("_handle_post_jobs")
    /\ response.header = FormatJobId(1)
    /\ FormatJobId(0) \in started
    /\ batch_jobs[FormatJobId(0)].status = "queued"
    /\ batch_jobs[FormatJobId(0)].pg # batch_jobs[FormatJobId(1)].pg

(***************************************************************************)
(* C19. Results come after a start, whatever the hook.                     *)
(***************************************************************************)
\* C19: under any installed hook, a list-results or result-asset request of
\* a job is answered only if a start of that job was answered before, and a
\* job that was never started is not finished.
C19_ResultsAfterStart ==
    /\ response.handler \in ResultsHandlers /\ response.error = ""
          => response.job_id \in started
    /\ \A job_id \in DOMAIN batch_jobs \ started :
          batch_jobs[job_id].status # "finished"

\* Under a hook installed by the test, the results of a started job were
\* listed.
C19_Witness ==
    /\ job_status_updater.kind = "custom"
    /\ Answered("_handle_get_job_results")
    /\ response.job_id \in started
    /\ batch_jobs[response.job_id].status = "finished"

(***************************************************************************)
(* C20. Dispatch.                                                          *)
(***************************************************************************)
\* Id segments that do not match job-\d+.
BadSegments == {<<"x">>, JOB_DASH, FormatJobId(0) \o <<"x">>, <<>>}

\* The job-scoped paths with such a segment, by the suffix after it.
BadIdPaths(suffix) == {JOBS_SLASH \o seg \o suffix : seg \in BadSegments}

\* The paths dispatch is probed with: those of the requests, and paths that
\* come close to a route.
ProbePaths ==
    Paths
    \cup BadIdPaths(<<>>) \cup BadIdPaths(SUFFIX_RESULTS) \cup BadIdPaths(SUFFIX_ASSET)
    \cup {JOBS_SLASH \o FormatJobId(0) \o <<"/">>,
          JOBS_SLASH \o FormatJobId(1000) \o SUFFIX_RESULTS,
          JOBS_SLASH \o FormatJobId(0) \o SUFFIX_RESULTS \o SUFFIX_RESULTS,
          JOBS_SLASH \o FormatJobId(0) \o SUFFIX_ASSET \o SUFFIX_RESULTS,
          JOBS_SLASH \o FormatJobId(0) \o SUFFIX_RESULTS \o <<"/">>
              \o [RESULT_DATA EXCEPT ![7] = "X"],
          PATH_RESULT \o <<"s">>,
          PATH_JOBS \o PATH_RESULT}

\* At most one route matches a request.
C20_AtMostOneRoute ==
    \A method \in Methods, path \in ProbePaths : Cardinality(Matching(method, path)) <= 1

\* A request that no route matches fails in the mock transport and leaves
\* the backend as it is.
C20_Step ==
    response'.handler = "" /\ response'.error # "" =>
        /\ response'.error = "NoMockAddress"
        /\ sync_requests' = sync_requests
        /\ batch_jobs' = batch_jobs
        /\ validation_requests' = validation_requests
        /\ next_result' = next_result
        /\ next_validation_errors' = next_validation_errors
        /\ job_stacks' = job_stacks
        /\ hook_calls' = <<>>
        /\ started' = started

\* No handler is handed a path it cannot extract a job id from.
C20_NoHandlerForBadId == response.detail # "Failed to extract job_id"

C20_BadIdRouting ==
    /\ \A method \in Methods, suffix \in {<<>>, SUFFIX_RESULTS} :
          \A path \in BadIdPaths(suffix) : Dispatch(method, path) = ""
    /\ \A path \in BadIdPaths(SUFFIX_ASSET) :
          /\ Dispatch("POST", path) = ""
          /\ Dispatch("GET", path) = "_handle_get_job_result_asset"
          /\ MatchJobId(path) = <<>>

\* The only handler handed such a path is the asset handler, which raises.
C20_BadIdRaises ==
    response.detail = "Failed to extract job_id" =>
        /\ response.handler = "_handle_get_job_result_asset"
        /\ response.error = "OpeneoTestingException"

====
